---- MODULE Spec2Model ----
(***************************************************************************)
(* Model of the face identity service of timler/facial-recognition:        *)
(* watch/facial_recognition.py (class FacialRecognition), the handlers of  *)
(* watch/api.py that call it, and the matcher of the command line script   *)
(* facial_recognition.py.                                                  *)
(*                                                                         *)
(* Strings are sequences of one-character strings, so that lower(),        *)
(* strip(), title(), split() and os.path.join() are computed as Python     *)
(* computes them.  An image is the sequence of the embeddings of the faces *)
(* the extractor detects in it, in detection order; an embedding is a      *)
(* point on a line, in thousandths of a distance unit, and the distance of *)
(* two embeddings is the absolute difference.                              *)
(***************************************************************************)
EXTENDS Integers, Sequences, FiniteSets, TLC

VARIABLES
    files,                  \* the file system: resolved path -> image stored there
    dirs,                   \* the file system: the directories that exist
    known_face_encodings,   \* FacialRecognition.known_face_encodings
    known_face_names,       \* FacialRecognition.known_face_names
    known_face_filenames,   \* FacialRecognition.known_face_filenames
    known_face_origins,     \* history: the path of the file each record was made from
    lastOp,                 \* the last request handled and what it answered
    name_pool,              \* the names the callers of this run use
    task,                   \* the handler the event loop is in the middle of
    api_keys_file,          \* api.py: API_KEYS_FILE, None when it is not set
    valid_api_keys,         \* api.py: the lines of that file
    api_key_header,         \* the x-api-key header the caller sends, None for none
    face_database           \* face_database.py: the two lists of a FaceDatabase

vars == <<files, dirs, known_face_encodings, known_face_names,
          known_face_filenames, known_face_origins, lastOp, name_pool, task,
          api_keys_file, valid_api_keys, api_key_header, face_database>>

\* what no request handler of the service changes: api.py makes no FaceDatabase
setting == <<name_pool, api_keys_file, valid_api_keys, api_key_header, face_database>>

\* ----------------------------------------------------------------- bounds
MaxRand == 1      \* random.randint draws from 0..MaxRand
MaxFiles == 2     \* saves stop once the store holds this many files
MaxIndex == MaxFiles + 1   \* saves stop once the Index holds this many records

\* ---------------------------------------------------------------- strings
LowerAlpha == <<"a","b","c","d","e","f","g","h","i","j","k","l","m",
                "n","o","p","q","r","s","t","u","v","w","x","y","z">>
UpperAlpha == <<"A","B","C","D","E","F","G","H","I","J","K","L","M",
                "N","O","P","Q","R","S","T","U","V","W","X","Y","Z">>
DigitChars == <<"0","1","2","3","4","5","6","7","8","9">>

LowerSet == {LowerAlpha[i] : i \in 1..26}
UpperSet == {UpperAlpha[i] : i \in 1..26}
ToLowerMap == [c \in UpperSet |-> LowerAlpha[CHOOSE i \in 1..26 : UpperAlpha[i] = c]]
ToUpperMap == [c \in LowerSet |-> UpperAlpha[CHOOSE i \in 1..26 : LowerAlpha[i] = c]]

IsLowerChar(c) == c \in LowerSet
IsUpperChar(c) == c \in UpperSet
IsCased(c) == IsLowerChar(c) \/ IsUpperChar(c)
IsSpace(c) == c = " "

LowerChar(c) == IF IsUpperChar(c) THEN ToLowerMap[c] ELSE c
UpperChar(c) == IF IsLowerChar(c) THEN ToUpperMap[c] ELSE c

\* str.lower()
Lower(s) == [i \in 1..Len(s) |-> LowerChar(s[i])]

\* str.strip(): leading and trailing whitespace removed
Strip(s) ==
    LET keep == {i \in 1..Len(s) : ~IsSpace(s[i])}
    IN  IF keep = {} THEN <<>>
        ELSE LET lo == CHOOSE i \in keep : \A j \in keep : i <= j
                 hi == CHOOSE i \in keep : \A j \in keep : i >= j
             IN  SubSeq(s, lo, hi)

\* str.title(): a cased character is upper-cased when the character before it is
\* not cased, and lower-cased when it is
Title(s) ==
    [i \in 1..Len(s) |->
        IF ~IsCased(s[i]) THEN s[i]
        ELSE IF i > 1 /\ IsCased(s[i-1]) THEN LowerChar(s[i]) ELSE UpperChar(s[i])]

\* str.split(sep) for a one-character separator
Split(s, sep) ==
    LET seps == {i \in 1..Len(s) : s[i] = sep}
        n == Cardinality(seps)
        at(k) == IF k = 0 THEN 0
                 ELSE IF k = n + 1 THEN Len(s) + 1
                 ELSE CHOOSE i \in seps : Cardinality({j \in seps : j <= i}) = k
    IN  [k \in 1..(n + 1) |-> SubSeq(s, at(k - 1) + 1, at(k) - 1)]

\* str.endswith(suffix)
EndsWith(s, suffix) ==
    /\ Len(s) >= Len(suffix)
    /\ SubSeq(s, Len(s) - Len(suffix) + 1, Len(s)) = suffix

\* str(n) for a natural number
RECURSIVE IntToStr(_)
IntToStr(n) ==
    IF n < 10 THEN <<DigitChars[n + 1]>>
    ELSE IntToStr(n \div 10) \o <<DigitChars[(n % 10) + 1]>>

\* Python's None as a name argument, and what an f-string makes of it
None == <<"<None>">>
Format(name) == IF name = None THEN <<"N","o","n","e">> ELSE name

\* ------------------------------------------------------------------ paths
\* os.path.join(a, b)
PathJoin(a, b) ==
    IF b # <<>> /\ b[1] = "/" THEN b
    ELSE IF a = <<>> \/ a[Len(a)] = "/" THEN a \o b
    ELSE a \o <<"/">> \o b

\* os.path.basename(p)
Basename(p) == LET parts == Split(p, "/") IN parts[Len(parts)]

\* What the file system makes of a path string: its components, with empty and
\* "." components dropped and ".." climbing one level.
RECURSIVE ResolveParts(_, _)
ResolveParts(parts, acc) ==
    IF parts = <<>> THEN acc
    ELSE LET c == Head(parts)
         IN  IF c = <<>> \/ c = <<".">> THEN ResolveParts(Tail(parts), acc)
             ELSE IF c = <<".", ".">> /\ acc # <<>> /\ acc[Len(acc)] # <<".", ".">>
                  THEN ResolveParts(Tail(parts), SubSeq(acc, 1, Len(acc) - 1))
             ELSE ResolveParts(Tail(parts), Append(acc, c))
Resolve(p) == ResolveParts(Split(p, "/"), <<>>)

\* the ancestors of a resolved path and the path itself: what os.makedirs creates
Ancestors(rp) == {SubSeq(rp, 1, k) : k \in 1..Len(rp)}
ParentOf(rp) == SubSeq(rp, 1, Len(rp) - 1)

face_database_dir == <<"d","b">>
KNOWN == <<"k","n","o","w","n">>
UNKNOWN == <<"u","n","k","n","o","w","n">>
DOTJPG == <<".","j","p","g">>

\* the extensions load_known_faces of the command line script accepts
IsScriptImageName(filename) ==
    \/ EndsWith(filename, DOTJPG)
    \/ EndsWith(filename, <<".","p","n","g">>)

\* the extensions _load_known_faces and get_all_images accept
IsImageName(filename) ==
    \/ EndsWith(filename, DOTJPG)
    \/ EndsWith(filename, <<".","p","n","g">>)
    \/ EndsWith(filename, <<".","j","p","e","g">>)
    \/ EndsWith(filename, <<".","w","e","b","p">>)

\* ----------------------------------------------------------------- images
\* A base64 string holding an image is the one-element sequence of the image;
\* the empty string is the empty sequence.
image_to_base64(img) == <<img>>
base64_to_image_buffer(s) == s[1]
EmptyString == <<>>

\* the content of a file that is no image: load_image_file and Image.open
\* raise on it
Corrupt == <<-999999>>
Readable(img) == img # Corrupt

\* face_recognition.face_encodings(image): one embedding per detected face
face_encodings(img) == img
\* face_recognition.face_locations(image): the positions of the detected faces
face_locations(img) == [i \in 1..Len(img) |-> i]
\* _crop_image_to_face: the part of the image around one face
crop_image_to_face(img, face_location) == <<img[face_location]>>

\* ---------------------------------------------------------------- matcher
Tolerance == 600        \* tolerance=0.6
MatchThreshold == 500   \* MATCH_THRESHOLD 0.5 of the command line script
MaxDistance == 1000     \* max_distance=1.0

\* face_recognition.face_distance(known, probe): Euclidean distance to each record
AbsDiff(a, b) == IF a >= b THEN a - b ELSE b - a
face_distance(encodings, probe) ==
    [i \in 1..Len(encodings) |-> AbsDiff(encodings[i], probe)]

\* face_recognition.compare_faces(known, probe, tolerance)
compare_faces(encodings, probe, tolerance) ==
    [i \in 1..Len(encodings) |-> AbsDiff(encodings[i], probe) <= tolerance]

\* the 0-based position of the last minimum
argmin_last(d) ==
    (CHOOSE i \in 1..Len(d) :
        /\ \A j \in 1..Len(d) : d[i] <= d[j]
        /\ \A j \in (i + 1)..Len(d) : d[j] > d[i]) - 1

\* numpy argmin: the 0-based position of the first minimum
argmin(d) ==
    (CHOOSE i \in 1..Len(d) :
        /\ \A j \in 1..Len(d) : d[i] <= d[j]
        /\ \A j \in 1..(i - 1) : d[j] > d[i]) - 1

\* Python round() of the fraction num/den >= 0: to the nearest integer, ties to even
RoundHalfEven(num, den) ==
    LET q == num \div den
        r == num % den
    IN  IF 2 * r < den THEN q
        ELSE IF 2 * r > den THEN q + 1
        ELSE IF q % 2 = 0 THEN q ELSE q + 1

\* a percentage that grows with the distance
distance_to_percentage(distance, max_distance) ==
    LET d == IF distance <= max_distance THEN distance ELSE max_distance
    IN  RoundHalfEven(100 * d, max_distance)

\* a confidence without the min() of line 64
distance_to_confidence_unclamped(distance, max_distance) ==
    RoundHalfEven(100 * (max_distance - distance), max_distance)

\* _distance_to_confidence(distance, max_distance)
distance_to_confidence(distance, max_distance) ==
    LET d == IF distance <= max_distance THEN distance ELSE max_distance
    IN  RoundHalfEven(100 * (max_distance - d), max_distance)

\* ------------------------------------------------------------ file system
Exists(fs, ds, p) == Resolve(p) \in DOMAIN fs \/ Resolve(p) \in ds

\* os.makedirs(p, exist_ok=True)
makedirs(ds, p) == ds \cup Ancestors(Resolve(p))

\* a function without one of its arguments, and with one more
RemoveKey(f, k) == [x \in DOMAIN f \ {k} |-> f[x]]
PutKey(f, k, v) == [x \in DOMAIN f \cup {k} |-> IF x = k THEN v ELSE f[x]]

KnownRoot == Resolve(PathJoin(face_database_dir, KNOWN))
UnknownRoot == Resolve(PathJoin(face_database_dir, UNKNOWN))

\* the sub-directories of known/: the person_dir entries that pass os.path.isdir
PersonDirs(ds) == {d \in ds : Len(d) = Len(KnownRoot) + 1 /\ ParentOf(d) = KnownRoot}

\* the image files directly inside a person directory
KnownImageFiles(fs, ds) ==
    {f \in DOMAIN fs : ParentOf(f) \in PersonDirs(ds) /\ IsImageName(f[Len(f)])}

\* the path string of a resolved path, relative to the store root
RECURSIVE JoinParts(_)
JoinParts(parts) ==
    IF Len(parts) = 1 THEN parts[1]
    ELSE PathJoin(JoinParts(SubSeq(parts, 1, Len(parts) - 1)), parts[Len(parts)])
\* (for a file outside the store root: the path that climbs out of the root)
FileRefOf(rp) ==
    LET root == Resolve(face_database_dir)
    IN  IF Len(rp) > Len(root) /\ SubSeq(rp, 1, Len(root)) = root
        THEN JoinParts(SubSeq(rp, Len(root) + 1, Len(rp)))
        ELSE PathJoin(<<".",".">>, JoinParts(rp))

\* os.listdir gives the entries in an arbitrary order: every order in which
\* the two nested loops of _load_known_faces can meet the known image files
Listings(fs, ds) ==
    LET S == KnownImageFiles(fs, ds)
        n == Cardinality(S)
    IN  {s \in [1..n -> S] :
            /\ \A x \in S : \E i \in 1..n : s[i] = x
            /\ \A i, j, k \in 1..n :
                 (i < j /\ j < k /\ ParentOf(s[i]) = ParentOf(s[k]))
                     => ParentOf(s[j]) = ParentOf(s[i])}

\* ------------------------------------------------------------------ index
\* The records _load_known_faces has appended after the first k files of a
\* listing: a file with no detected face is skipped.
RECURSIVE LoadedRecords(_, _, _)
LoadedRecords(fs, listing, k) ==
    IF k = 0 THEN <<>>
    ELSE LET f == listing[k]
             encs == face_encodings(fs[f])
             before == LoadedRecords(fs, listing, k - 1)
         IN  IF Len(encs) = 0 THEN before
             ELSE Append(before,
                     [encoding |-> encs[1],
                      name |-> Title(f[Len(f) - 1]),
                      filename |-> f[Len(f)],
                      origin |-> f])

Encodings(recs) == [i \in 1..Len(recs) |-> recs[i].encoding]
RecNames(recs) == [i \in 1..Len(recs) |-> recs[i].name]
Filenames(recs) == [i \in 1..Len(recs) |-> recs[i].filename]
Origins(recs) == [i \in 1..Len(recs) |-> recs[i].origin]

\* ----------------------------------------------------------------- inputs
AL == <<"a","l">>
\* The names the callers of one run use: one of these pools, fixed at the start.
NamePools ==
    { { UNKNOWN,                              \* "unknown"
        <<"U","n","k","n","o","w","n">>,      \* "Unknown"
        <<" ","A","l">> },                    \* " Al"
      { None,                                 \* no name given
        <<>>,                                 \* ""
        <<"b","o">> } }                       \* "bo"

RandInts == 0..MaxRand

\* the images sent to save_face: no face, one face, two faces
SaveImages == { <<>>, <<0>>, <<1000, 0>> }

\* the images sent to identify_faces
IdentifyImages == { <<>>, <<-500>>, <<-600, -601>>, <<0, 500>> }

\* file references a caller may hold that name no stored file (any more)
ProbeRefs ==
    { PathJoin(UNKNOWN, UNKNOWN \o <<"_","0">> \o DOTJPG),
      PathJoin(PathJoin(KNOWN, AL), AL \o <<"_","0">> \o DOTJPG) }
RefInputs(fs) == { FileRefOf(f) : f \in DOMAIN fs } \cup ProbeRefs

\* ------------------------------------------------------- what a request answers
OpRecord(op, img, name, ref, ok, err, ret, results) ==
    [op |-> op, img |-> img, name |-> name, ref |-> ref,
     ok |-> ok, err |-> err, ret |-> ret, results |-> results]
NoOp == OpRecord("none", <<>>, <<>>, <<>>, TRUE, "", <<>>, <<>>)
Idle == [pc |-> "idle"]
\* the lists of a FaceDatabase nobody has constructed
NoFaceDatabase == [known_face_names |-> <<>>, known_face_file_urls |-> <<>>]

\* --------------------------------------------------------------- identify
\* a result that takes the title-cased sentinel, as the records of save do
unknown_face_titled(face_image) ==
    [raised |-> FALSE,
     name |-> Title(UNKNOWN),
     image |-> face_image,
     matching_image |-> EmptyString,
     confidence |-> 0]

\* recognize_faces_in_image, lines 119-124: the result a face starts with, and
\* keeps when no record matches
unknown_face(face_image) ==
    [raised |-> FALSE,
     name |-> UNKNOWN,
     image |-> face_image,
     matching_image |-> EmptyString,
     confidence |-> 0]

\* recognize_faces_in_image, lines 110-145: the result for one detected face;
\* raised tells that loading the matched stored image failed.
identified_face(encodings, names, filenames, fs, img, index) ==
    LET face_encoding == face_encodings(img)[index]
        face_location == face_locations(img)[index]
        matches == compare_faces(encodings, face_encoding, Tolerance)
        face_distances == face_distance(encodings, face_encoding)
        face_image == image_to_base64(crop_image_to_face(img, face_location))
        best_match_index == IF Len(face_distances) > 0 THEN argmin(face_distances) ELSE -1
    IN  IF best_match_index >= 0 /\ matches[best_match_index + 1]
        THEN LET identified_name == names[best_match_index + 1]
                 matched_face_filename ==
                     PathJoin(PathJoin(PathJoin(face_database_dir, KNOWN),
                                       Lower(identified_name)),
                              filenames[best_match_index + 1])
                 confidence ==
                     distance_to_confidence(face_distances[best_match_index + 1], MaxDistance)
             IN  IF /\ Resolve(matched_face_filename) \in DOMAIN fs
                    /\ Readable(fs[Resolve(matched_face_filename)])
                 THEN [raised |-> FALSE,
                       name |-> identified_name,
                       image |-> face_image,
                       matching_image |-> image_to_base64(fs[Resolve(matched_face_filename)]),
                       confidence |-> confidence]
                 ELSE [raised |-> TRUE,
                       name |-> identified_name,
                       image |-> face_image,
                       matching_image |-> EmptyString,
                       confidence |-> confidence]
        ELSE unknown_face(face_image)

\* an identify without the check of lines 107-108
recognize_faces_in_image_unchecked(encodings, names, filenames, fs, img) ==
    LET faces == [i \in 1..Len(img) |->
                     identified_face(encodings, names, filenames, fs, img, i)]
    IN  IF \E i \in 1..Len(img) : faces[i].raised
        THEN [ok |-> FALSE, err |-> "FileNotFound", results |-> <<>>]
        ELSE [ok |-> TRUE, err |-> "",
              results |-> [i \in 1..Len(img) |->
                  [name |-> faces[i].name,
                   image |-> faces[i].image,
                   matching_image |-> faces[i].matching_image,
                   confidence |-> faces[i].confidence]]]

\* recognize_faces_in_image: what the whole call answers
recognize_faces_in_image(encodings, names, filenames, fs, img) ==
    IF Len(face_locations(img)) = 0
    THEN [ok |-> FALSE, err |-> "NoFaceFound", results |-> <<>>]
    ELSE LET faces == [i \in 1..Len(img) |->
                          identified_face(encodings, names, filenames, fs, img, i)]
         IN  IF \E i \in 1..Len(img) : faces[i].raised
             THEN [ok |-> FALSE, err |-> "FileNotFound", results |-> <<>>]
             ELSE [ok |-> TRUE, err |-> "",
                   results |-> [i \in 1..Len(img) |->
                       [name |-> faces[i].name,
                        image |-> faces[i].image,
                        matching_image |-> faces[i].matching_image,
                        confidence |-> faces[i].confidence]]]

\* a check that lets a request without the header through
check_api_key_lenient(file, keys, header) ==
    ~(file # None /\ file # <<>> /\ header # None /\ header \notin keys)

\* api.py check_api_key: TRUE when the request goes on to its handler, FALSE
\* when it is answered with 403
check_api_key(file, keys, header) ==
    ~(file # None /\ file # <<>> /\ header \notin keys)

\* the request has passed the dependency of its endpoint
Authorized == check_api_key(api_keys_file, valid_api_keys, api_key_header)

\* handlers dispatched to a pool of threads: a request is taken up at any time
HandlersOverlap == TRUE

\* the event loop runs one handler at a time: an async handler that never awaits
\* runs from its first line to its return before another one starts
LoopFree == task.pc = "idle"

\* the answer to the last request has been sent
Ready == lastOp = NoOp

\* the last request was a delete, and it removed its file
Deleted == lastOp.op = "delete" /\ lastOp.ok

\* an identify that learns: it appends the first probe to the Index, as the
\* script adds the faces it has seen to its lists
IdentifyAndLearn ==
    /\ Authorized
    /\ LoopFree
    /\ Ready
    /\ \E img \in IdentifyImages :
         LET out == recognize_faces_in_image(known_face_encodings, known_face_names,
                                             known_face_filenames, files, img)
             learns == out.ok /\ Len(known_face_names) < MaxIndex
         IN  /\ lastOp' = OpRecord("identify", img, <<>>, <<>>, out.ok, out.err, <<>>, out.results)
             /\ known_face_encodings' =
                    IF learns THEN Append(known_face_encodings, face_encodings(img)[1])
                    ELSE known_face_encodings
             /\ known_face_names' =
                    IF learns THEN Append(known_face_names, out.results[1].name)
                    ELSE known_face_names
             /\ known_face_filenames' =
                    IF learns THEN Append(known_face_filenames, <<>>)
                    ELSE known_face_filenames
             /\ known_face_origins' =
                    IF learns THEN Append(known_face_origins, <<>>)
                    ELSE known_face_origins
    /\ UNCHANGED <<files, dirs, setting, task>>

\* POST /identify_faces
Identify ==
    /\ Authorized
    /\ LoopFree
    /\ Ready
    /\ \E img \in IdentifyImages :
         LET out == recognize_faces_in_image(known_face_encodings, known_face_names,
                                             known_face_filenames, files, img)
         IN  lastOp' = OpRecord("identify", img, <<>>, <<>>, out.ok, out.err, <<>>, out.results)
    /\ UNCHANGED <<files, dirs, known_face_encodings, known_face_names,
                   known_face_filenames, known_face_origins, setting, task>>

\* ------------------------------------------------------------------- save
\* a name kept as it was typed, but for the blanks around it
save_name_cased(name) == Strip(name)

\* save_face_image, line 179
save_name(name) == Strip(Lower(name))

\* save_face_image, lines 176-187: crop the first face, name the file and write
\* it.  rec is the record lines 190-192 append afterwards.
save_store(fs, ds, img, name, r) ==
    IF name = None
    THEN [ok |-> FALSE, err |-> "AttributeError", fs |-> fs, ds |-> ds,
          rec |-> <<>>, ret |-> <<>>]
    ELSE
        LET face_image == crop_image_to_face(img, face_locations(img)[1])
            lname == save_name(name)
            filename == lname \o <<"_">> \o IntToStr(r) \o DOTJPG
            sub_folder == IF lname = UNKNOWN THEN UNKNOWN ELSE PathJoin(KNOWN, lname)
            full_path == PathJoin(face_database_dir, sub_folder)
            ds2 == makedirs(ds, full_path)
            file_path == PathJoin(full_path, filename)
            target == Resolve(file_path)
            \* cv2.imwrite writes nothing, and says nothing, when it cannot
            written == ParentOf(target) \in ds2 /\ target \notin ds2
        IN  [ok |-> TRUE, err |-> "",
             fs |-> IF written THEN PutKey(fs, target, face_image) ELSE fs,
             ds |-> ds2,
             rec |-> [encoding |-> face_encodings(img)[1], name |-> Title(lname),
                      filename |-> filename, origin |-> target],
             ret |-> PathJoin(sub_folder, filename)]

\* a save that makes the person's folder before it looks for a face
save_write_folder_first(fs, ds, img, name, r) ==
    IF Len(face_encodings(img)) = 0 /\ name # None
    THEN [ok |-> FALSE, err |-> "NoFaceFound", fs |-> fs,
          ds |-> makedirs(ds, PathJoin(face_database_dir, PathJoin(KNOWN, save_name(name)))),
          rec |-> <<>>, ret |-> <<>>]
    ELSE IF Len(face_encodings(img)) = 0
    THEN [ok |-> FALSE, err |-> "NoFaceFound", fs |-> fs, ds |-> ds,
          rec |-> <<>>, ret |-> <<>>]
    ELSE save_store(fs, ds, img, name, r)

\* save_face_image, lines 163-187: detect, then store
save_write(fs, ds, img, name, r) ==
    LET unchanged(err) == [ok |-> FALSE, err |-> err, fs |-> fs, ds |-> ds,
                           rec |-> <<>>, ret |-> <<>>]
    IN  IF Len(face_encodings(img)) = 0 THEN unchanged("NoFaceFound")
        ELSE IF Len(face_locations(img)) = 0 THEN unchanged("NoFaceFound")
        ELSE save_store(fs, ds, img, name, r)

\* the bound on the store and on the Index
SaveFits(out) ==
    /\ Cardinality(DOMAIN out.fs) <= MaxFiles
    /\ Len(known_face_names) < MaxIndex

\* POST /save_face, sent when the last answer has been read or right after the
\* answer to a delete
Save ==
    /\ Authorized
    /\ LoopFree
    /\ Ready \/ Deleted
    /\ \E img \in SaveImages, name \in name_pool, r \in RandInts :
         LET out == save_write(files, dirs, img, name, r)
         IN  IF out.ok
             THEN /\ SaveFits(out)
                  /\ files' = out.fs
                  /\ dirs' = out.ds
                  /\ known_face_encodings' = Append(known_face_encodings, out.rec.encoding)
                  /\ known_face_names' = Append(known_face_names, out.rec.name)
                  /\ known_face_filenames' = Append(known_face_filenames, out.rec.filename)
                  /\ known_face_origins' = Append(known_face_origins, out.rec.origin)
                  /\ lastOp' = OpRecord("save", img, name, <<>>, TRUE, "", out.ret, <<>>)
             ELSE /\ lastOp' = OpRecord("save", img, name, <<>>, FALSE, out.err, <<>>, <<>>)
                  /\ files' = out.fs
                  /\ dirs' = out.ds
                  /\ UNCHANGED <<known_face_encodings, known_face_names,
                                 known_face_filenames, known_face_origins>>
    /\ UNCHANGED <<setting, task>>

\* ------------------------------------------------------------------ label
\* label_image, lines 212-216: the folder a name stands for
label_sub_folder(name) ==
    IF name = None \/ name = <<>> \/ Strip(name) = UNKNOWN
    THEN UNKNOWN
    ELSE PathJoin(KNOWN, Strip(Lower(name)))

\* label_image, lines 212-225: derive the folder, make it, move the file.
\* (A reference that names a directory is not among RefInputs.)
label_rename(fs, ds, face_image_url, name, r) ==
    LET old_file_path == PathJoin(face_database_dir, face_image_url)
        source == Resolve(old_file_path)
        to_unknown == name = None \/ name = <<>> \/ Strip(name) = UNKNOWN
        name2 == IF to_unknown THEN name ELSE Strip(Lower(name))
        sub_folder == label_sub_folder(name)
        path == PathJoin(face_database_dir, sub_folder)
        ds2 == makedirs(ds, path)
        new_filename == Format(name2) \o <<"_">> \o IntToStr(r) \o DOTJPG
        new_file_path == PathJoin(path, new_filename)
        target == Resolve(new_file_path)
    IN  IF target \in ds2 \/ ParentOf(target) \notin ds2
        THEN [ok |-> FALSE, err |-> "OSError", fs |-> fs, ds |-> ds2, ret |-> <<>>]
        ELSE [ok |-> TRUE, err |-> "",
              fs |-> PutKey(RemoveKey(fs, source), target, fs[source]),
              ds |-> ds2,
              ret |-> PathJoin(sub_folder, new_filename)]

\* a label that makes the folder of the name before it looks for the file
label_move_folder_first(fs, ds, face_image_url, name, r) ==
    IF ~Exists(fs, ds, PathJoin(face_database_dir, face_image_url))
    THEN [ok |-> FALSE, err |-> "NotFound", fs |-> fs,
          ds |-> makedirs(ds, PathJoin(face_database_dir, label_sub_folder(name))),
          ret |-> <<>>]
    ELSE label_rename(fs, ds, face_image_url, name, r)

\* label_image, lines 210-225 and 231-232: find the file, then move it
label_move(fs, ds, face_image_url, name, r) ==
    IF ~Exists(fs, ds, PathJoin(face_database_dir, face_image_url))
    THEN [ok |-> FALSE, err |-> "NotFound", fs |-> fs, ds |-> ds, ret |-> <<>>]
    ELSE label_rename(fs, ds, face_image_url, name, r)

\* a rebuild that stops one file short of the end of the listing
load_known_faces_short(fs, listing) ==
    LoadedRecords(fs, listing, IF Len(listing) > 0 THEN Len(listing) - 1 ELSE 0)

\* _load_known_faces, line 51: the place in the listing of the first file that
\* load_image_file raises on, 0 when it reads them all
RECURSIVE FirstUnreadable(_, _, _)
FirstUnreadable(fs, listing, k) ==
    IF k > Len(listing) THEN 0
    ELSE IF ~Readable(fs[listing[k]]) THEN k
    ELSE FirstUnreadable(fs, listing, k + 1)

\* _load_known_faces has no handler around the loading of a file: the
\* exception leaves the loop, label_image or delete_image, and the handler
load_raises(fs, listing) == FirstUnreadable(fs, listing, 1) # 0

\* _load_known_faces over one listing of known/, to its end or to the file it
\* raises on
load_known_faces(fs, listing) ==
    LoadedRecords(fs, listing,
                  IF load_raises(fs, listing)
                  THEN FirstUnreadable(fs, listing, 1) - 1
                  ELSE Len(listing))

\* POST /label_face, sent when the last answer has been read or right after the
\* answer to a delete
Label ==
    /\ Authorized
    /\ LoopFree
    /\ Ready \/ Deleted
    /\ \E ref \in RefInputs(files), name \in name_pool, r \in RandInts :
         LET out == label_move(files, dirs, ref, name, r)
         IN  IF out.ok
             THEN \E listing \in Listings(out.fs, makedirs(out.ds, PathJoin(face_database_dir, KNOWN))) :
                    LET recs == load_known_faces(out.fs, listing)
                    IN  /\ files' = out.fs
                        /\ dirs' = makedirs(out.ds, PathJoin(face_database_dir, KNOWN))
                        /\ known_face_encodings' = Encodings(recs)
                        /\ known_face_names' = RecNames(recs)
                        /\ known_face_filenames' = Filenames(recs)
                        /\ known_face_origins' = Origins(recs)
                        /\ lastOp' = IF load_raises(out.fs, listing)
                                     THEN OpRecord("label", <<>>, name, ref, FALSE,
                                                   "LoadError", <<>>, <<>>)
                                     ELSE OpRecord("label", <<>>, name, ref, TRUE, "",
                                                   out.ret, <<>>)
             ELSE /\ lastOp' = OpRecord("label", <<>>, name, ref, FALSE, out.err, <<>>, <<>>)
                  /\ dirs' = out.ds
                  /\ UNCHANGED <<files, known_face_encodings, known_face_names,
                                 known_face_filenames, known_face_origins>>
    /\ UNCHANGED <<setting, task>>

\* ----------------------------------------------------------------- delete
\* _get_name_from_filename
get_name_from_filename(filename) ==
    LET name == Split(Split(filename, ".")[1], "_")[1]
    IN  IF name # UNKNOWN THEN Title(name) ELSE name

\* a delete that takes a missing file for a file already removed
delete_remove_quiet(fs, ds, filename) ==
    LET file_path == PathJoin(face_database_dir, filename)
        target == Resolve(file_path)
    IN  IF ~Exists(fs, ds, file_path)
        THEN [ok |-> TRUE, err |-> "", fs |-> fs, ret |-> <<>>]
        ELSE IF target \notin DOMAIN fs
        THEN [ok |-> FALSE, err |-> "IsADirectory", fs |-> fs, ret |-> <<>>]
        ELSE IF ~Readable(fs[target])
        THEN [ok |-> FALSE, err |-> "LoadError", fs |-> fs, ret |-> <<>>]
        ELSE [ok |-> TRUE, err |-> "",
              fs |-> RemoveKey(fs, target),
              ret |-> [face_image_url |-> filename,
                       name |-> get_name_from_filename(Basename(file_path)),
                       image_base64 |-> image_to_base64(fs[target])]]

\* delete_image, lines 293-298: find the file, read its name and bytes, remove it
delete_remove(fs, ds, filename) ==
    LET file_path == PathJoin(face_database_dir, filename)
        target == Resolve(file_path)
    IN  IF ~Exists(fs, ds, file_path)
        THEN [ok |-> FALSE, err |-> "NotFound", fs |-> fs, ret |-> <<>>]
        ELSE IF target \notin DOMAIN fs
        THEN [ok |-> FALSE, err |-> "IsADirectory", fs |-> fs, ret |-> <<>>]
        ELSE IF ~Readable(fs[target])
        THEN [ok |-> FALSE, err |-> "LoadError", fs |-> fs, ret |-> <<>>]
        ELSE [ok |-> TRUE, err |-> "",
              fs |-> RemoveKey(fs, target),
              ret |-> [face_image_url |-> filename,
                       name |-> get_name_from_filename(Basename(file_path)),
                       image_base64 |-> image_to_base64(fs[target])]]

\* a delete that leaves the Index as it is
DeleteKeepIndex ==
    /\ Authorized
    /\ LoopFree
    /\ Ready
    /\ \E ref \in RefInputs(files) :
         LET out == delete_remove(files, dirs, ref)
         IN  /\ files' = out.fs
             /\ lastOp' = OpRecord("delete", <<>>, <<>>, ref, out.ok, out.err, out.ret, <<>>)
    /\ UNCHANGED <<dirs, known_face_encodings, known_face_names, known_face_filenames,
                   known_face_origins, setting, task>>

\* POST /delete_face
Delete ==
    /\ Authorized
    /\ LoopFree
    /\ Ready
    /\ \E ref \in RefInputs(files) :
         LET out == delete_remove(files, dirs, ref)
         IN  IF out.ok
             THEN \E listing \in Listings(out.fs, makedirs(dirs, PathJoin(face_database_dir, KNOWN))) :
                    LET recs == load_known_faces(out.fs, listing)
                    IN  /\ files' = out.fs
                        /\ dirs' = makedirs(dirs, PathJoin(face_database_dir, KNOWN))
                        /\ known_face_encodings' = Encodings(recs)
                        /\ known_face_names' = RecNames(recs)
                        /\ known_face_filenames' = Filenames(recs)
                        /\ known_face_origins' = Origins(recs)
                        /\ lastOp' = IF load_raises(out.fs, listing)
                                     THEN OpRecord("delete", <<>>, <<>>, ref, FALSE,
                                                   "LoadError", <<>>, <<>>)
                                     ELSE OpRecord("delete", <<>>, <<>>, ref, TRUE, "",
                                                   out.ret, <<>>)
             ELSE /\ lastOp' = OpRecord("delete", <<>>, <<>>, ref, FALSE, out.err, <<>>, <<>>)
                  /\ UNCHANGED <<files, dirs, known_face_encodings, known_face_names,
                                 known_face_filenames, known_face_origins>>
    /\ UNCHANGED <<setting, task>>

\* ---------------------------------------------------------- specification
\* FacialRecognition.__init__ over a new face_database_dir
Init ==
    /\ files = <<>>
    /\ dirs = makedirs({}, PathJoin(face_database_dir, KNOWN))
    /\ known_face_encodings = <<>>
    /\ known_face_names = <<>>
    /\ known_face_filenames = <<>>
    /\ known_face_origins = <<>>
    /\ lastOp = NoOp
    /\ name_pool \in NamePools
    /\ task = Idle
    /\ api_keys_file = None
    /\ valid_api_keys = {}
    /\ api_key_header = None
    /\ face_database = NoFaceDatabase

\* the response of the last request goes out
Respond ==
    /\ lastOp # NoOp
    /\ lastOp' = NoOp
    /\ UNCHANGED <<files, dirs, known_face_encodings, known_face_names,
                   known_face_filenames, known_face_origins, setting, task>>


\* ------------------------------------------------------------------- list
\* get_all_images, lines 255-260: the folder a name stands for
list_sub_folder(name) ==
    IF name = None \/ name = <<>> \/ Strip(name) = UNKNOWN
    THEN UNKNOWN
    ELSE PathJoin(KNOWN, Strip(Lower(name)))

\* os.listdir(path): the files of one folder, in every order
DirListings(fs, rp) ==
    LET S == {f \in DOMAIN fs : ParentOf(f) = rp}
        n == Cardinality(S)
    IN  {s \in [1..n -> S] : \A x \in S : \E i \in 1..n : s[i] = x}

\* get_all_images, lines 262-275, over one order of the folder's entries
get_all_images(fs, ds, name, listing) ==
    LET sub_folder == list_sub_folder(name)
        path == PathJoin(face_database_dir, sub_folder)
        shown == SelectSeq(listing, LAMBDA f : IsImageName(f[Len(f)]))
    IN  IF ~Exists(fs, ds, path)
        THEN [ok |-> TRUE, err |-> "", images |-> <<>>]
        ELSE IF Resolve(path) \notin ds
        THEN [ok |-> FALSE, err |-> "NotADirectory", images |-> <<>>]
        ELSE IF \E d \in ds : ParentOf(d) = Resolve(path) /\ IsImageName(d[Len(d)])
        THEN [ok |-> FALSE, err |-> "IsADirectory", images |-> <<>>]
        ELSE IF \E i \in 1..Len(shown) : ~Readable(fs[shown[i]])
        THEN [ok |-> FALSE, err |-> "LoadError", images |-> <<>>]
        ELSE [ok |-> TRUE, err |-> "",
              images |-> [i \in 1..Len(shown) |->
                  [face_image_url |-> PathJoin(sub_folder, shown[i][Len(shown[i])]),
                   name |-> get_name_from_filename(shown[i][Len(shown[i])]),
                   image_base64 |-> image_to_base64(fs[shown[i]])]]]

\* the names a caller lists: those it saves and labels with, or none
ListNames == name_pool \cup {None}

\* a listing that makes the folder it is asked for, as save and label do
GetImagesMakingFolder ==
    /\ Authorized
    /\ LoopFree
    /\ Ready \/ (lastOp.op \in {"save", "label"} /\ lastOp.ok)
    /\ \E name \in ListNames :
         \E listing \in DirListings(files, Resolve(PathJoin(face_database_dir,
                                                             list_sub_folder(name)))) :
            LET out == get_all_images(files, dirs, name, listing)
            IN  /\ lastOp' = OpRecord("list", <<>>, name, <<>>, out.ok, out.err, <<>>, out.images)
                /\ dirs' = makedirs(dirs, PathJoin(face_database_dir, list_sub_folder(name)))
    /\ UNCHANGED <<files, known_face_encodings, known_face_names,
                   known_face_filenames, known_face_origins, setting, task>>

\* GET /get_images, sent when the last answer has been read or right after the
\* answer to a save or a label
GetImages ==
    /\ Authorized
    /\ LoopFree
    /\ Ready \/ (lastOp.op \in {"save", "label"} /\ lastOp.ok)
    /\ \E name \in ListNames :
         \E listing \in DirListings(files, Resolve(PathJoin(face_database_dir,
                                                             list_sub_folder(name)))) :
            LET out == get_all_images(files, dirs, name, listing)
            IN  lastOp' = OpRecord("list", <<>>, name, <<>>, out.ok, out.err, <<>>, out.images)
    /\ UNCHANGED <<files, dirs, known_face_encodings, known_face_names,
                   known_face_filenames, known_face_origins, setting, task>>

Next == Save \/ Label \/ Delete \/ Identify \/ GetImages \/ Respond

Spec == Init /\ [][Next]_vars

\* ------------------------------------------- the handlers, statement by statement
\* The same handlers with their statements as separate steps: what another
\* handler would see if it ran in between.  No handler takes a lock (the class
\* creates none): locks lists what the running handler holds.
Running(pc, op, img, name, ref, ret, rec, listing, k) ==
    [pc |-> pc, op |-> op, img |-> img, name |-> name, ref |-> ref, ret |-> ret,
     rec |-> rec, listing |-> listing, k |-> k, locks |-> {}]

\* save_face_image up to cv2.imwrite
StartSave ==
    /\ Authorized
    /\ LoopFree
    /\ Ready
    /\ \E img \in SaveImages, name \in name_pool, r \in RandInts :
         LET out == save_write(files, dirs, img, name, r)
         IN  IF out.ok
             THEN /\ SaveFits(out)
                  /\ files' = out.fs
                  /\ dirs' = out.ds
                  /\ task' = Running("append", "save", img, name, <<>>, out.ret, out.rec, <<>>, 0)
                  /\ UNCHANGED lastOp
             ELSE /\ lastOp' = OpRecord("save", img, name, <<>>, FALSE, out.err, <<>>, <<>>)
                  /\ files' = out.fs
                  /\ dirs' = out.ds
                  /\ UNCHANGED task
    /\ UNCHANGED <<known_face_encodings, known_face_names, known_face_filenames,
                   known_face_origins, setting>>

\* save_face_image, lines 189-194
FinishSave ==
    /\ task.pc = "append"
    /\ known_face_encodings' = Append(known_face_encodings, task.rec.encoding)
    /\ known_face_names' = Append(known_face_names, task.rec.name)
    /\ known_face_filenames' = Append(known_face_filenames, task.rec.filename)
    /\ known_face_origins' = Append(known_face_origins, task.rec.origin)
    /\ lastOp' = OpRecord("save", task.img, task.name, <<>>, TRUE, "", task.ret, <<>>)
    /\ task' = Idle
    /\ UNCHANGED <<files, dirs, setting>>

\* label_image up to os.rename
StartLabel ==
    /\ Authorized
    /\ LoopFree
    /\ Ready
    /\ \E ref \in RefInputs(files), name \in name_pool, r \in RandInts :
         LET out == label_move(files, dirs, ref, name, r)
         IN  /\ dirs' = out.ds
             /\ IF out.ok
                THEN /\ files' = out.fs
                     /\ task' = Running("reload", "label", <<>>, name, ref, out.ret, <<>>, <<>>, 0)
                     /\ UNCHANGED lastOp
                ELSE /\ lastOp' = OpRecord("label", <<>>, name, ref, FALSE, out.err, <<>>, <<>>)
                     /\ UNCHANGED <<files, task>>
    /\ UNCHANGED <<known_face_encodings, known_face_names, known_face_filenames,
                   known_face_origins, setting>>

\* delete_image up to os.remove
StartDelete ==
    /\ Authorized
    /\ LoopFree
    /\ Ready
    /\ \E ref \in RefInputs(files) :
         LET out == delete_remove(files, dirs, ref)
         IN  IF out.ok
             THEN /\ files' = out.fs
                  /\ task' = Running("reload", "delete", <<>>, <<>>, ref, out.ret, <<>>, <<>>, 0)
                  /\ UNCHANGED lastOp
             ELSE /\ lastOp' = OpRecord("delete", <<>>, <<>>, ref, FALSE, out.err, <<>>, <<>>)
                  /\ UNCHANGED <<files, task>>
    /\ UNCHANGED <<dirs, known_face_encodings, known_face_names, known_face_filenames,
                   known_face_origins, setting>>

\* _load_known_faces, lines 37-43: the lists are emptied and known/ is listed
ReloadClear ==
    /\ task.pc = "reload"
    /\ known_face_encodings' = <<>>
    /\ known_face_names' = <<>>
    /\ known_face_filenames' = <<>>
    /\ known_face_origins' = <<>>
    /\ dirs' = makedirs(dirs, PathJoin(face_database_dir, KNOWN))
    /\ \E listing \in Listings(files, dirs') :
         task' = [task EXCEPT !.pc = "loading", !.listing = listing, !.k = 0]
    /\ UNCHANGED <<files, lastOp, setting>>

\* _load_known_faces, lines 47-58: one more file of the listing
ReloadNext ==
    /\ task.pc = "loading"
    /\ task.k < Len(task.listing)
    /\ IF Readable(files[task.listing[task.k + 1]])
       THEN LET recs == LoadedRecords(files, task.listing, task.k + 1)
            IN  /\ known_face_encodings' = Encodings(recs)
                /\ known_face_names' = RecNames(recs)
                /\ known_face_filenames' = Filenames(recs)
                /\ known_face_origins' = Origins(recs)
                /\ task' = [task EXCEPT !.k = task.k + 1]
                /\ UNCHANGED lastOp
       ELSE /\ lastOp' = OpRecord(task.op, <<>>, task.name, task.ref, FALSE,
                                  "LoadError", <<>>, <<>>)
            /\ task' = Idle
            /\ UNCHANGED <<known_face_encodings, known_face_names,
                           known_face_filenames, known_face_origins>>
    /\ UNCHANGED <<files, dirs, setting>>

\* label_image, line 230, and delete_image, lines 300-304: the handler returns
ReloadDone ==
    /\ task.pc = "loading"
    /\ task.k = Len(task.listing)
    /\ lastOp' = OpRecord(task.op, <<>>, task.name, task.ref, TRUE, "", task.ret, <<>>)
    /\ task' = Idle
    /\ UNCHANGED <<files, dirs, known_face_encodings, known_face_names,
                   known_face_filenames, known_face_origins, setting>>

NextSteps ==
    \/ StartSave \/ FinishSave
    \/ StartLabel \/ StartDelete
    \/ ReloadClear \/ ReloadNext \/ ReloadDone
    \/ Identify \/ Respond

SpecSteps == Init /\ [][NextSteps]_vars

\* ------------------------------------------------------- the service with API keys
KeysFile == <<"k","e","y","s">>
Key1 == <<"k","1">>
Key2 == <<"k","2">>
\* the headers a caller sends: none, a listed key, a key that is not listed
Headers == {None, Key1, Key2}
Endpoints == {"identify", "save", "list", "delete", "label"}

\* the service started with API_KEYS_FILE naming a file with one key
InitKeys ==
    /\ files = <<>>
    /\ dirs = makedirs({}, PathJoin(face_database_dir, KNOWN))
    /\ known_face_encodings = <<>>
    /\ known_face_names = <<>>
    /\ known_face_filenames = <<>>
    /\ known_face_origins = <<>>
    /\ lastOp = NoOp
    /\ name_pool = {UNKNOWN, <<" ","A","l">>}
    /\ task = Idle
    /\ api_keys_file = KeysFile
    /\ valid_api_keys = {Key1}
    /\ api_key_header = None
    /\ face_database = NoFaceDatabase

\* the caller changes the header it sends
SendHeader ==
    /\ Ready
    /\ \E header \in Headers \ {api_key_header} : api_key_header' = header
    /\ UNCHANGED <<files, dirs, known_face_encodings, known_face_names,
                   known_face_filenames, known_face_origins, lastOp, name_pool, task,
                   api_keys_file, valid_api_keys, face_database>>

\* check_api_key raises HTTPException(403): the handler of the endpoint is not run
Forbidden ==
    /\ ~Authorized
    /\ LoopFree /\ Ready
    /\ \E endpoint \in Endpoints :
         lastOp' = OpRecord(endpoint, <<>>, <<>>, <<>>, FALSE, "Forbidden", <<>>, <<>>)
    /\ UNCHANGED <<files, dirs, known_face_encodings, known_face_names,
                   known_face_filenames, known_face_origins, setting, task>>

NextKeys ==
    SendHeader \/ Forbidden \/ Save \/ Label \/ Delete \/ Identify \/ GetImages \/ Respond

SpecKeys == InitKeys /\ [][NextKeys]_vars

\* ------------------------------------- the service over a store that has files
StoredFile(sub_folder, filename) ==
    Resolve(PathJoin(PathJoin(face_database_dir, sub_folder), filename))
LegacyName(stem, extension) == stem \o <<"_">> \o IntToStr(7) \o extension

\* the files face_database_dir holds when the service starts: put there by
\* hand or by an earlier run
LegacyStores ==
    { \* a .png with two faces and a .webp with none, in known/al/
      (StoredFile(PathJoin(KNOWN, AL), LegacyName(AL, <<".","p","n","g">>))
           :> <<1000, 0>>)
        @@ (StoredFile(PathJoin(KNOWN, AL), LegacyName(AL, <<".","w","e","b","p">>))
           :> <<>>),
      \* a .jpeg with one face and a file that is not named as an image
      (StoredFile(PathJoin(KNOWN, AL), LegacyName(AL, <<".","j","p","e","g">>))
           :> <<0>>)
        @@ (StoredFile(PathJoin(KNOWN, AL), LegacyName(AL, <<".","t","x","t">>))
           :> <<500>>),
      \* a file in unknown/ whose content is no image
      (StoredFile(UNKNOWN, LegacyName(UNKNOWN, DOTJPG)) :> Corrupt) }

\* FacialRecognition.__init__ over such a store: the constructor returns only
\* when _load_known_faces has read every image file under known/
InitLegacy ==
    /\ files \in LegacyStores
    /\ dirs = UNION {Ancestors(ParentOf(f)) : f \in DOMAIN files}
                 \cup makedirs({}, PathJoin(face_database_dir, KNOWN))
    /\ \E listing \in Listings(files, dirs) :
         LET recs == load_known_faces(files, listing)
         IN  /\ ~load_raises(files, listing)
             /\ known_face_encodings = Encodings(recs)
             /\ known_face_names = RecNames(recs)
             /\ known_face_filenames = Filenames(recs)
             /\ known_face_origins = Origins(recs)
    /\ lastOp = NoOp
    /\ name_pool = {UNKNOWN, <<" ","A","l">>}
    /\ task = Idle
    /\ api_keys_file = None
    /\ valid_api_keys = {}
    /\ api_key_header = None
    /\ face_database = NoFaceDatabase

SpecLegacy == InitLegacy /\ [][Next]_vars

\* ------------------------------- the service beside a file that is not its own
\* a file in the directory that holds face_database_dir
OutsideFile == Resolve(PathJoin(face_database_dir, <<".",".","/","k",".","j","p","g">>))
\* a name that holds a path: "../al"
ClimbingName == <<".",".","/","a","l">>

\* FacialRecognition.__init__ over a new face_database_dir, with callers that
\* send paths which climb out of it
InitOutside ==
    /\ files = (OutsideFile :> <<500>>)
    /\ dirs = makedirs({}, PathJoin(face_database_dir, KNOWN))
    /\ known_face_encodings = <<>>
    /\ known_face_names = <<>>
    /\ known_face_filenames = <<>>
    /\ known_face_origins = <<>>
    /\ lastOp = NoOp
    /\ name_pool = {<<" ","A","l">>, ClimbingName}
    /\ task = Idle
    /\ api_keys_file = None
    /\ valid_api_keys = {}
    /\ api_key_header = None
    /\ face_database = NoFaceDatabase

SpecOutside == InitOutside /\ [][Next]_vars

\* ----------------------------------------------------------- the FaceDatabase
\* FaceDatabase._get_sub_folder
db_get_sub_folder(name) ==
    IF name = None \/ name = UNKNOWN \/ name = <<>>
    THEN UNKNOWN
    ELSE PathJoin(KNOWN, Strip(Lower(name)))

\* FaceDatabase._generate_file_name, with the number random.randint returns
db_generate_file_name(name, r) ==
    Strip(Lower(name)) \o <<"_">> \o IntToStr(r) \o DOTJPG

\* FaceDatabase._load_known_faces over one listing of known/: no file is read
db_load_known_faces(listing) ==
    [known_face_names |-> [i \in 1..Len(listing) |-> Title(listing[i][Len(listing[i]) - 1])],
     known_face_file_urls |-> [i \in 1..Len(listing) |-> FileRefOf(listing[i])]]

\* del list[index] of Python: a negative index counts from the end
DelAt(list, index) ==
    LET k == IF index < 0 THEN Len(list) + index + 1 ELSE index + 1
    IN  SubSeq(list, 1, k - 1) \o SubSeq(list, k + 1, Len(list))

\* a removal that leaves the check of the index to del
remove_face_at_index_unchecked(db, index) ==
    IF index < -Len(db.known_face_names) \/ index >= Len(db.known_face_names)
    THEN [ok |-> FALSE, err |-> "IndexOutOfRange", db |-> db]
    ELSE [ok |-> TRUE, err |-> "",
          db |-> [known_face_names |-> DelAt(db.known_face_names, index),
                  known_face_file_urls |-> DelAt(db.known_face_file_urls, index)]]

\* FaceDatabase.remove_face_at_index
remove_face_at_index(db, index) ==
    IF index < 0 \/ index >= Len(db.known_face_names)
    THEN [ok |-> FALSE, err |-> "IndexOutOfRange", db |-> db]
    ELSE [ok |-> TRUE, err |-> "",
          db |-> [known_face_names |-> DelAt(db.known_face_names, index),
                  known_face_file_urls |-> DelAt(db.known_face_file_urls, index)]]

\* the positions a caller asks to remove
RemoveIndexes == -2..MaxIndex

\* FaceDatabase.__init__ over a store that is new or has files
InitFaceDatabase ==
    /\ files \in LegacyStores \cup {<<>>}
    /\ dirs = UNION {Ancestors(ParentOf(f)) : f \in DOMAIN files}
                 \cup makedirs({}, PathJoin(face_database_dir, KNOWN))
    /\ \E listing \in Listings(files, dirs) : face_database = db_load_known_faces(listing)
    /\ known_face_encodings = <<>>
    /\ known_face_names = <<>>
    /\ known_face_filenames = <<>>
    /\ known_face_origins = <<>>
    /\ lastOp = NoOp
    /\ name_pool = {UNKNOWN, <<" ","A","l">>}
    /\ task = Idle
    /\ api_keys_file = None
    /\ valid_api_keys = {}
    /\ api_key_header = None

\* FaceDatabase.save_face_image(name, image_array)
DbSaveFaceImage ==
    /\ Ready
    /\ \E img \in SaveImages \ {<<>>}, name \in name_pool, r \in RandInts :
         LET lname == Strip(Lower(name))
             filename == db_generate_file_name(lname, r)
             sub_folder == db_get_sub_folder(lname)
             full_path == PathJoin(face_database_dir, sub_folder)
             target == Resolve(PathJoin(full_path, filename))
             file_url == PathJoin(sub_folder, filename)
         IN  /\ Cardinality(DOMAIN files \cup {target}) <= MaxFiles
             /\ Len(face_database.known_face_names) < MaxIndex
             /\ dirs' = makedirs(dirs, full_path)
             /\ files' = PutKey(files, target, img)
             /\ face_database' =
                    [known_face_names |-> Append(face_database.known_face_names, Title(lname)),
                     known_face_file_urls |-> Append(face_database.known_face_file_urls, file_url)]
             /\ lastOp' = OpRecord("db_save", img, name, <<>>, TRUE, "", file_url, <<>>)
    /\ UNCHANGED <<known_face_encodings, known_face_names, known_face_filenames,
                   known_face_origins, name_pool, task,
                   api_keys_file, valid_api_keys, api_key_header>>

\* FaceDatabase.remove_face_at_index(index)
RemoveFaceAtIndex ==
    /\ Ready
    /\ \E index \in RemoveIndexes :
         LET out == remove_face_at_index(face_database, index)
         IN  /\ face_database' = out.db
             /\ lastOp' = OpRecord("remove", <<>>, <<>>, <<index>>, out.ok, out.err, <<>>, <<>>)
    /\ UNCHANGED <<files, dirs, known_face_encodings, known_face_names,
                   known_face_filenames, known_face_origins, name_pool, task,
                   api_keys_file, valid_api_keys, api_key_header>>

NextFaceDatabase == DbSaveFaceImage \/ RemoveFaceAtIndex \/ Respond

SpecFaceDatabase == InitFaceDatabase /\ [][NextFaceDatabase]_vars

\* ------------------------------------------------- the confidence of a distance
\* the largest distance tried, in thousandths
MaxProbeDistance == 1500
ProbeDistances == 0..MaxProbeDistance

\* _distance_to_confidence applied to one distance, with the default max_distance
Confidence ==
    /\ \E d \in ProbeDistances :
         lastOp' = OpRecord("confidence", <<d>>, <<>>, <<>>, TRUE, "",
                            <<distance_to_confidence(d, MaxDistance)>>, <<>>)
    /\ UNCHANGED <<files, dirs, known_face_encodings, known_face_names,
                   known_face_filenames, known_face_origins, setting, task>>

SpecConfidence == Init /\ [][Confidence]_vars

\* ------------------------------------------- the matcher of the command line script
\* facial_recognition.py (the script), lines 114-136: the name it settles on for
\* one probe, and whether it computed a confidence for it
script_identified_name(known_face_encodings_, known_face_names_, face_encoding) ==
    LET matches == compare_faces(known_face_encodings_, face_encoding, Tolerance)
        face_distances == face_distance(known_face_encodings_, face_encoding)
        best_match_index == IF Len(face_distances) > 0 THEN argmin(face_distances) ELSE -1
    IN  IF best_match_index > 0 /\ matches[best_match_index + 1]
        THEN LET best_match_distance == face_distances[best_match_index + 1]
                 confidence == distance_to_confidence(best_match_distance, MaxDistance)
             IN  IF best_match_distance < MatchThreshold
                 THEN [name |-> known_face_names_[best_match_index + 1],
                       reported |-> TRUE, confidence |-> confidence]
                 ELSE [name |-> UNKNOWN, reported |-> TRUE, confidence |-> confidence]
        ELSE [name |-> UNKNOWN, reported |-> FALSE, confidence |-> 0]

\* ------------------------------------------------------------ state functions
NumRecords == Len(known_face_names)

\* the file identify loads for record i: known/<lowercase(record name)>/<file name>
RecordPath(i) ==
    Resolve(PathJoin(PathJoin(PathJoin(face_database_dir, KNOWN), Lower(known_face_names[i])),
                     known_face_filenames[i]))

\* the distance from a probe to the nearest record (the Index is not empty)
NearestDistance(probe) ==
    LET d == face_distance(known_face_encodings, probe) IN d[argmin(d) + 1]
NearestRecord(probe) == argmin(face_distance(known_face_encodings, probe)) + 1

\* The Index reflects the Store: every record was made from a file that is still
\* there, carries the name of that file's folder, and every image with a face in
\* a person folder has its record.
IndexFresh ==
    /\ \A i \in 1..NumRecords : known_face_origins[i] \in DOMAIN files
    /\ \A i \in 1..NumRecords :
         LET f == known_face_origins[i]
         IN  /\ ParentOf(f) \in PersonDirs(dirs) =>
                    /\ known_face_names[i] = Title(f[Len(f) - 1])
                    /\ known_face_filenames[i] = f[Len(f)]
             /\ ParentOf(f) = UnknownRoot =>
                    /\ known_face_names[i] = Title(UNKNOWN)
                    /\ known_face_filenames[i] = f[Len(f)]
    /\ \A f \in KnownImageFiles(files, dirs) :
         Len(face_encodings(files[f])) > 0 =>
             \E i \in 1..NumRecords :
                 /\ known_face_origins[i] = f
                 /\ known_face_encodings[i] = face_encodings(files[f])[1]

IdentifyAnswered == lastOp.op = "identify" /\ lastOp.ok

\* -------------------------------------------------------------------- claims

\* C1: after every completed save, label or delete the Index holds as many records
\* as there are image files under known/<dir>/, and every record refers to a file
\* that exists in the Store.
C1_IndexMatchesKnownFiles ==
    (lastOp.op \in {"save", "label", "delete"} /\ lastOp.ok) =>
        /\ NumRecords = Cardinality(KnownImageFiles(files, dirs))
        /\ \A i \in 1..NumRecords : RecordPath(i) \in DOMAIN files

C4_VerdictGate ==
    IdentifyAnswered =>
        \A i \in 1..Len(lastOp.results) :
            LET probe == lastOp.img[i]
                gate == /\ NumRecords > 0
                        /\ NearestDistance(probe) <= Tolerance
                        /\ NearestDistance(probe) < MatchThreshold
                script == script_identified_name(known_face_encodings, known_face_names, probe)
            IN  /\ (lastOp.results[i].matching_image # EmptyString) <=> gate
                /\ (script.name # UNKNOWN) <=> gate

\* C5: a probe whose nearest record is at exactly the match threshold is answered
\* with the name "unknown" and the near-miss confidence 50.
C5_ThresholdIsStrict ==
    IdentifyAnswered =>
        \A i \in 1..Len(lastOp.results) :
            (NumRecords > 0 /\ NearestDistance(lastOp.img[i]) = MatchThreshold) =>
                /\ lastOp.results[i].name = UNKNOWN
                /\ lastOp.results[i].confidence = 50

\* C6: with an empty Index, identify of an image with at least one face succeeds
\* and every result has the name "unknown", no matched image and confidence 0.
C6_EmptyIndexUnknown ==
    (lastOp.op = "identify" /\ NumRecords = 0 /\ Len(lastOp.img) > 0) =>
        /\ lastOp.ok
        /\ Len(lastOp.results) = Len(lastOp.img)
        /\ \A i \in 1..Len(lastOp.results) :
             /\ lastOp.results[i].name = UNKNOWN
             /\ lastOp.results[i].matching_image = EmptyString
             /\ lastOp.results[i].confidence = 0

\* C6 witness: identify of a two-face image answered from an empty Index
C6_IdentifiedOnEmptyIndex ==
    IdentifyAnswered /\ NumRecords = 0 /\ Len(lastOp.img) = 2

\* C7: identify returns one result per detected face; a match carries the
\* record's name, the stored image of that same record and the confidence of the
\* distance to it; a non-match carries no matched image.
C7_ResultPerFace ==
    (lastOp.op = "identify" /\ Len(lastOp.img) > 0) =>
        /\ lastOp.ok
        /\ Len(lastOp.results) = Len(lastOp.img)
        /\ \A i \in 1..Len(lastOp.results) :
             LET probe == lastOp.img[i]
                 res == lastOp.results[i]
             IN  IF NumRecords > 0 /\ NearestDistance(probe) <= Tolerance
                 THEN LET best == NearestRecord(probe)
                      IN  /\ res.name = known_face_names[best]
                          /\ res.name = Title(res.name)
                          /\ known_face_origins[best] \in DOMAIN files
                          /\ res.matching_image = image_to_base64(files[known_face_origins[best]])
                          /\ res.confidence =
                                 distance_to_confidence(NearestDistance(probe), MaxDistance)
                 ELSE res.matching_image = EmptyString

\* C8: identify is a pure read: whether it succeeds or fails, the files and
\* folders of the Store and the Index are after the call what they were before.
C8_IdentifyReadsOnly ==
    [][(lastOp'.op = "identify" /\ lastOp.op = "none") =>
          UNCHANGED <<files, dirs, known_face_encodings, known_face_names,
                      known_face_filenames>>]_vars

\* C8 witness: identify has answered, and has failed, over a Store and an Index
\* that hold something
C8_IdentifiedOverStore ==
    /\ lastOp.op = "identify"
    /\ ~lastOp.ok
    /\ NumRecords > 0
    /\ DOMAIN files # {}

\* C9: identify of an image with no detected face fails with NoFaceFound and
\* returns no result.
C9_NoFaceFound ==
    (lastOp.op = "identify" /\ Len(face_locations(lastOp.img)) = 0) =>
        /\ ~lastOp.ok
        /\ lastOp.err = "NoFaceFound"
        /\ lastOp.results = <<>>

\* C9 witness: identify of an image with no face, over an Index that holds records
C9_IdentifiedNoFace ==
    lastOp.op = "identify" /\ Len(lastOp.img) = 0 /\ NumRecords > 0

\* C10: save of an image with more than one detected face fails with
\* MultipleFacesFound and changes neither the Store nor the Index.
C10_MultipleFacesRejected ==
    [][(lastOp'.op = "save" /\ lastOp.op = "none" /\ Len(lastOp'.img) > 1) =>
          /\ ~lastOp'.ok
          /\ lastOp'.err = "MultipleFacesFound"
          /\ UNCHANGED <<files, dirs, known_face_encodings, known_face_names,
                         known_face_filenames>>]_vars

\* ------------------------------------------------------ claims on save
\* a step that answers a request of one kind
Answers(op) == lastOp' # lastOp /\ lastOp'.op = op

\* lowercase(trim(name)), for a name that is given
Normalised(name) == Lower(Strip(name))
NoName(name) == name = None \/ name = <<>>
IsSentinel(name) == ~NoName(name) /\ Normalised(name) = UNKNOWN
RealName(name) == ~NoName(name) /\ Normalised(name) # <<>> /\ Normalised(name) # UNKNOWN

\* s is prefix, then one digit or more, then ".jpg"
IsNumbered(s, prefix) ==
    /\ Len(s) > Len(prefix) + Len(DOTJPG)
    /\ SubSeq(s, 1, Len(prefix)) = prefix
    /\ EndsWith(s, DOTJPG)
    /\ \A i \in (Len(prefix) + 1)..(Len(s) - Len(DOTJPG)) :
         \E d \in 0..9 : <<s[i]>> = IntToStr(d)

\* the file a reference names
FileOf(ref) == Resolve(PathJoin(face_database_dir, ref))

\* C11: save of an image with no detected face fails with NoFaceFound, and the
\* folders, the files and the Index are what they were.
C11_NoFaceSaveChangesNothing ==
    [][(Answers("save") /\ Len(face_locations(lastOp'.img)) = 0) =>
          /\ ~lastOp'.ok
          /\ lastOp'.err = "NoFaceFound"
          /\ UNCHANGED <<files, dirs, known_face_encodings, known_face_names,
                         known_face_filenames>>]_vars

\* C11 witness: a refused save of a faceless image for a person who has no folder
C11_RefusedFacelessSave ==
    /\ lastOp.op = "save"
    /\ Len(lastOp.img) = 0
    /\ lastOp.err = "NoFaceFound"
    /\ RealName(lastOp.name)
    /\ Append(KnownRoot, Normalised(lastOp.name)) \notin dirs

\* C12: save of a one-face image under a real name n returns
\* known/<n>/<n>_<digits>.jpg, the file is then in the Store with the cropped
\* face, and the Index is the old one with one record appended, for that file,
\* under the title-cased name.
C12_SaveKnownFace ==
    [][(Answers("save") /\ Len(face_locations(lastOp'.img)) = 1 /\ RealName(lastOp'.name)) =>
          LET n == Normalised(lastOp'.name)
              old == Len(known_face_names)
          IN  /\ lastOp'.ok
              /\ IsNumbered(lastOp'.ret, KNOWN \o <<"/">> \o n \o <<"/">> \o n \o <<"_">>)
              /\ FileOf(lastOp'.ret) \in DOMAIN files'
              /\ files'[FileOf(lastOp'.ret)] =
                     crop_image_to_face(lastOp'.img, face_locations(lastOp'.img)[1])
              /\ Len(known_face_names') = old + 1
              /\ Len(known_face_encodings') = old + 1
              /\ Len(known_face_filenames') = old + 1
              /\ SubSeq(known_face_names', 1, old) = known_face_names
              /\ SubSeq(known_face_encodings', 1, old) = known_face_encodings
              /\ SubSeq(known_face_filenames', 1, old) = known_face_filenames
              /\ known_face_names'[old + 1] = Title(n)
              /\ known_face_encodings'[old + 1] = face_encodings(lastOp'.img)[1]
              /\ PathJoin(PathJoin(KNOWN, Lower(known_face_names'[old + 1])),
                          known_face_filenames'[old + 1]) = lastOp'.ret]_vars

\* C12 witness: a second face saved for the same person
C12_SavedSecondFace ==
    /\ lastOp.op = "save"
    /\ lastOp.ok
    /\ Len(lastOp.img) = 1
    /\ RealName(lastOp.name)
    /\ NumRecords = 2
    /\ Cardinality(KnownImageFiles(files, dirs)) = 2

\* C13: a one-face save with no name, or with the name "unknown", succeeds and
\* makes its file directly in unknown/; with another name it makes it in
\* known/<lowercase(trim(name))>/; a save makes no file anywhere else.
C13_SaveFolder ==
    [][(Answers("save") /\ Len(face_locations(lastOp'.img)) = 1) =>
          LET name == lastOp'.name
              folder == IF NoName(name) \/ IsSentinel(name)
                        THEN UnknownRoot
                        ELSE Append(KnownRoot, Normalised(name))
          IN  /\ lastOp'.ok
              /\ FileOf(lastOp'.ret) \in DOMAIN files'
              /\ ParentOf(FileOf(lastOp'.ret)) = folder
              /\ \A f \in DOMAIN files' \ DOMAIN files :
                     ParentOf(f) = UnknownRoot \/ ParentOf(ParentOf(f)) = KnownRoot]_vars

\* ------------------------------------------- claims on the folder of a name
\* the folder a given name stands for: unknown/ for the sentinel in any case,
\* known/<lowercase(trim(name))>/ for another name
FolderOfName(name) ==
    IF IsSentinel(name) THEN UnknownRoot ELSE Append(KnownRoot, Normalised(name))

\* C14: for a name that is "unknown" whatever its case and the blanks around it,
\* save, label and listImages all work on unknown/, and for another name all
\* three work on known/<lowercase(trim(name))>/.
C14_SentinelAnyCase ==
    /\ (lastOp.op \in {"save", "label"} /\ lastOp.ok /\ ~NoName(lastOp.name)) =>
           ParentOf(FileOf(lastOp.ret)) = FolderOfName(lastOp.name)
    /\ (lastOp.op = "list" /\ lastOp.ok /\ ~NoName(lastOp.name)) =>
           \A i \in 1..Len(lastOp.results) :
               ParentOf(FileOf(lastOp.results[i].face_image_url)) = FolderOfName(lastOp.name)
    /\ (lastOp.op = "list" /\ ~NoName(lastOp.name)) =>
           FileOf(list_sub_folder(lastOp.name)) = FolderOfName(lastOp.name)

\* C15: when save(image, name) has returned the reference f and listImages(name)
\* is the next request, its answer has an entry with the reference f.
C15_SaveThenList ==
    [][(lastOp.op = "save" /\ lastOp.ok /\ lastOp'.op = "list" /\ lastOp'.name = lastOp.name) =>
          /\ lastOp'.ok
          /\ \E i \in 1..Len(lastOp'.results) :
                 lastOp'.results[i].face_image_url = lastOp.ret]_vars

\* C16: label(f, name) of an existing file with no name, the empty name or
\* "unknown" succeeds and returns a reference in unknown/, and when
\* listImages(None) is the next request its answer has that reference with the
\* name "unknown".
C16_LabelUnknownThenList ==
    [][/\ (Answers("label") /\ lastOp'.name \in {None, <<>>, UNKNOWN}
              /\ FileOf(lastOp'.ref) \in DOMAIN files) =>
             /\ lastOp'.ok
             /\ ParentOf(FileOf(lastOp'.ret)) = UnknownRoot
       /\ (lastOp.op = "label" /\ lastOp.ok /\ lastOp.name \in {None, <<>>, UNKNOWN}
              /\ lastOp'.op = "list" /\ lastOp'.name = None) =>
             /\ lastOp'.ok
             /\ \E i \in 1..Len(lastOp'.results) :
                    /\ lastOp'.results[i].face_image_url = lastOp.ret
                    /\ lastOp'.results[i].name = UNKNOWN]_vars

\* C17: after a successful label(f, name) the returned reference names a file,
\* with the content f had, in the folder of the name (unknown/ for no name), its
\* file name is <lowercase name>_<digits>.jpg, and f names no file any more.
C17_LabelMoves ==
    [][(Answers("label") /\ lastOp'.ok) =>
          LET name == lastOp'.name
              n == IF NoName(name) THEN UNKNOWN ELSE Normalised(name)
              folder == IF NoName(name) THEN UnknownRoot ELSE FolderOfName(name)
              old == FileOf(lastOp'.ref)
              new == FileOf(lastOp'.ret)
          IN  /\ new \in DOMAIN files'
              /\ files'[new] = files[old]
              /\ ParentOf(new) = folder
              /\ IsNumbered(new[Len(new)], n \o <<"_">>)
              /\ old \notin DOMAIN files']_vars

\* ------------------------------------------- claims on label and delete
\* the reference names nothing in the Store
Missing(ref) == FileOf(ref) \notin DOMAIN files /\ FileOf(ref) \notin dirs

\* C18: label(f, name) where f names nothing in the Store fails with NotFound
\* and leaves the folders, the files and the Index as they were.
C18_LabelMissing ==
    [][(Answers("label") /\ Missing(lastOp'.ref)) =>
          /\ ~lastOp'.ok
          /\ lastOp'.err = "NotFound"
          /\ UNCHANGED <<files, dirs, known_face_encodings, known_face_names,
                         known_face_filenames>>]_vars

\* C18 witness: a refused label of a missing file, towards a folder that is not
\* there, while the Store holds a file
C18_RefusedLabel ==
    /\ lastOp.op = "label"
    /\ lastOp.err = "NotFound"
    /\ DOMAIN files # {}
    /\ FileOf(label_sub_folder(lastOp.name)) \notin dirs

\* C19: delete(f) where f names nothing in the Store fails with NotFound and
\* leaves the folders, the files and the Index as they were.
C19_DeleteMissing ==
    [][(Answers("delete") /\ Missing(lastOp'.ref)) =>
          /\ ~lastOp'.ok
          /\ lastOp'.err = "NotFound"
          /\ UNCHANGED <<files, dirs, known_face_encodings, known_face_names,
                         known_face_filenames>>]_vars

\* C19 witness: a refused delete of a missing file while the Index holds records
C19_RefusedDelete ==
    /\ lastOp.op = "delete"
    /\ lastOp.err = "NotFound"
    /\ NumRecords > 0

\* C20: a successful delete(f) answers with f, with the bytes the file had
\* before the call and with the name listImages gave that file before the call;
\* afterwards f names no file and the Index is a rebuilt one without it: one
\* record for each image with a face in a person folder, and no other.
C20_DeleteSnapshot ==
    [][(Answers("delete") /\ lastOp'.ok) =>
          LET f == lastOp'.ref
              ret == lastOp'.ret
          IN  /\ FileOf(f) \in DOMAIN files
              /\ ret.face_image_url = f
              /\ ret.image_base64 = image_to_base64(files[FileOf(f)])
              /\ \A name \in ListNames :
                   \A listing \in DirListings(files, FileOf(list_sub_folder(name))) :
                     LET shown == get_all_images(files, dirs, name, listing).images
                     IN  \A i \in 1..Len(shown) :
                            shown[i].face_image_url = f =>
                                /\ shown[i].name = ret.name
                                /\ shown[i].image_base64 = ret.image_base64
              /\ FileOf(f) \notin DOMAIN files'
              /\ \A i \in 1..Len(known_face_origins') :
                     /\ known_face_origins'[i] # FileOf(f)
                     /\ known_face_origins'[i] \in KnownImageFiles(files', dirs')
              /\ IndexFresh'
              /\ Len(known_face_names') =
                     Cardinality({g \in KnownImageFiles(files', dirs') :
                                     Len(face_encodings(files'[g])) > 0})]_vars

\* C20 witness: a person's file deleted while another indexed file stays
C20_DeletedOneOfTwo ==
    /\ lastOp.op = "delete"
    /\ lastOp.ok
    /\ lastOp.ret.name = Title(AL)
    /\ NumRecords = 1

\* ------------------------------------------------ claims on the confidence
ConfidenceOf(d) == distance_to_confidence(d, MaxDistance)

\* C27: the confidence never grows with the distance: for all distances a < b,
\* confidence(a) >= confidence(b).
C27_ConfidenceMonotone ==
    lastOp.op = "confidence" =>
        \A b \in ProbeDistances :
            lastOp.img[1] < b => lastOp.ret[1] >= ConfidenceOf(b)

\* C27 witness: a confidence computed that lies strictly between the extremes
C27_ConfidenceBetween ==
    lastOp.op = "confidence" /\ lastOp.ret[1] > 0 /\ lastOp.ret[1] < 100

\* C28: for a distance d >= 0 the confidence is the integer nearest to
\* 100 * (1 - min(d, maxDistance) / maxDistance), lies in 0..100, is 100 at
\* d = 0 and is 0 for every d >= maxDistance.
C28_ConfidenceFormula ==
    lastOp.op = "confidence" =>
        LET d == lastOp.img[1]
            c == lastOp.ret[1]
            m == IF d <= MaxDistance THEN d ELSE MaxDistance
            exact == 100 * (MaxDistance - m)       \* times MaxDistance
        IN  /\ c \in 0..100
            /\ 2 * AbsDiff(c * MaxDistance, exact) <= MaxDistance
            /\ d = 0 => c = 100
            /\ d >= MaxDistance => c = 0

\* C28 witness: the confidence of a distance beyond maxDistance
C28_ConfidenceBeyondMax ==
    lastOp.op = "confidence" /\ lastOp.img[1] > MaxDistance /\ lastOp.ret[1] = 0

\* ------------------------------------------- claims on names and listings
\* the name of a stored file by its folder: the title-cased folder name in
\* known/<dir>/, "unknown" anywhere else
NameOfFolder(rp) ==
    IF ParentOf(rp) # KnownRoot /\ ParentOf(ParentOf(rp)) = KnownRoot
    THEN Title(rp[Len(rp) - 1])
    ELSE UNKNOWN

\* C21: every entry of listImages and the answer of delete carry the name of the
\* file's folder: the title-cased folder name under known/<dir>/, "unknown"
\* under unknown/, whatever the file's own name is.
C21_NameFromFolder ==
    /\ (lastOp.op = "list" /\ lastOp.ok) =>
           \A i \in 1..Len(lastOp.results) :
               lastOp.results[i].name = NameOfFolder(FileOf(lastOp.results[i].face_image_url))
    /\ (lastOp.op = "delete" /\ lastOp.ok) =>
           lastOp.ret.name = NameOfFolder(FileOf(lastOp.ref))

\* C22: listImages changes neither the folders, the files nor the Index, and
\* for a name whose folder is not in the Store it answers with an empty list
\* and no error.
C22_ListReadsOnly ==
    [][Answers("list") =>
          /\ UNCHANGED <<files, dirs, known_face_encodings, known_face_names,
                         known_face_filenames>>
          /\ FileOf(list_sub_folder(lastOp'.name)) \notin dirs =>
                 (lastOp'.ok /\ lastOp'.results = <<>>)]_vars

\* C22 witness: a listing for a name without a folder, over a Store with a file
C22_ListedNoFolder ==
    /\ lastOp.op = "list"
    /\ lastOp.ok
    /\ lastOp.results = <<>>
    /\ FileOf(list_sub_folder(lastOp.name)) \notin dirs
    /\ DOMAIN files # {}

\* C23: no save and no label returns a reference that names another file
\* already in the Store, and no two Index records have the same name and file
\* name.
C23_FileNamesUnique ==
    [][((Answers("save") \/ Answers("label")) /\ lastOp'.ok) =>
          /\ FileOf(lastOp'.ret) \in DOMAIN files =>
                 (lastOp'.op = "label" /\ FileOf(lastOp'.ret) = FileOf(lastOp'.ref))
          /\ \A i, j \in 1..Len(known_face_names') :
                 (i # j) =>
                     <<known_face_names'[i], known_face_filenames'[i]>> #
                     <<known_face_names'[j], known_face_filenames'[j]>>]_vars

\* the first of the records nearest to a probe, and whether another is as near
LowestNearest(probe) ==
    CHOOSE k \in 1..NumRecords :
        /\ \A j \in 1..NumRecords :
               AbsDiff(known_face_encodings[k], probe) <= AbsDiff(known_face_encodings[j], probe)
        /\ \A j \in 1..(k - 1) :
               AbsDiff(known_face_encodings[j], probe) # AbsDiff(known_face_encodings[k], probe)
Tied(probe) ==
    /\ NumRecords > 1
    /\ \E j \in 1..NumRecords :
           /\ j # LowestNearest(probe)
           /\ AbsDiff(known_face_encodings[j], probe) =
                  AbsDiff(known_face_encodings[LowestNearest(probe)], probe)

\* C30: when several records are at the same smallest distance from a probe,
\* within the tolerance, an identify that answers gives that face the name of
\* the one with the lowest index and the image stored under that record's name
\* and file name.
C30_TieLowestIndex ==
    IdentifyAnswered =>
        \A i \in 1..Len(lastOp.img) :
            LET probe == lastOp.img[i]
            IN  (Tied(probe) /\ AbsDiff(known_face_encodings[LowestNearest(probe)], probe)
                                    <= Tolerance) =>
                    LET k == LowestNearest(probe)
                    IN  /\ lastOp.results[i].name = known_face_names[k]
                        /\ RecordPath(k) \in DOMAIN files
                        /\ lastOp.results[i].matching_image =
                               image_to_base64(files[RecordPath(k)])

\* C30 witness: an answered identify with a probe as near to a record of one
\* name as to a record of another name
C30_IdentifiedTie ==
    /\ IdentifyAnswered
    /\ \E i \in 1..Len(lastOp.img) :
         /\ Tied(lastOp.img[i])
         /\ AbsDiff(known_face_encodings[LowestNearest(lastOp.img[i])], lastOp.img[i]) <= Tolerance
         /\ \E j \in 1..NumRecords :
                /\ AbsDiff(known_face_encodings[j], lastOp.img[i]) =
                       AbsDiff(known_face_encodings[LowestNearest(lastOp.img[i])], lastOp.img[i])
                /\ known_face_names[j] # known_face_names[LowestNearest(lastOp.img[i])]

\* ------------------------------------------------- claims on the life of a file
\* C24: when delete(f) has succeeded, the request that follows does not bring f
\* back into the Store, and if it is a label or a delete of f it fails with
\* NotFound.
C24_GoneIsTerminal ==
    [][Deleted =>
          /\ FileOf(lastOp.ref) \notin DOMAIN files'
          /\ (lastOp'.op \in {"label", "delete"} /\ lastOp'.ref = lastOp.ref) =>
                 (~lastOp'.ok /\ lastOp'.err = "NotFound")]_vars

\* ------------------------------------------------------ claims on the API keys
\* C29: with an API keys file configured, a request to any endpoint whose
\* x-api-key header is missing or is not a line of the file is answered with
\* 403 and the folders, the files and the Index are what they were.
C29_BadKeyRejected ==
    [][(lastOp' # lastOp /\ lastOp'.op \in Endpoints
           /\ api_keys_file # None /\ api_key_header \notin valid_api_keys) =>
          /\ ~lastOp'.ok
          /\ lastOp'.err = "Forbidden"
          /\ UNCHANGED <<files, dirs, known_face_encodings, known_face_names,
                         known_face_filenames>>]_vars

\* C29 witness: a delete without the header refused while the Store holds a
\* file and the Index a record
C29_RefusedWithoutKey ==
    /\ lastOp.op = "delete"
    /\ lastOp.err = "Forbidden"
    /\ api_key_header = None
    /\ face_database = NoFaceDatabase
    /\ DOMAIN files # {}
    /\ NumRecords > 0

\* ------------------------------------------------------ claims on the rebuild
IndexedExtensions ==
    { <<".","j","p","g">>, <<".","j","p","e","g">>, <<".","p","n","g">>,
      <<".","w","e","b","p">> }
\* the image files of the folders known/<dir>/
KnownFolderImages(fs) ==
    {f \in DOMAIN fs :
        /\ Len(f) = Len(KnownRoot) + 2
        /\ SubSeq(f, 1, Len(KnownRoot)) = KnownRoot
        /\ \E e \in IndexedExtensions : EndsWith(f[Len(f)], e)}
\* those of them in which the extractor finds a face
FaceFiles(fs) ==
    {f \in KnownFolderImages(fs) : Readable(fs[f]) /\ Len(face_encodings(fs[f])) > 0}
\* a label or a delete has run its rebuild to the end and answered
Rebuilt == (Answers("label") \/ Answers("delete")) /\ lastOp'.ok
\* the files the answered request has moved, removed or written
Touched ==
    {FileOf(lastOp'.ref)}
        \cup (IF lastOp'.op = "label" /\ lastOp'.ok THEN {FileOf(lastOp'.ret)} ELSE {})

C26_CorruptFileSkipped ==
    [][((Answers("label") \/ Answers("delete")) /\ files' # files) =>
          /\ lastOp'.ok
          /\ \A f \in FaceFiles(files') :
               \E i \in 1..Len(known_face_origins') : known_face_origins'[i] = f]_vars

\* ------------------------------------------------- claims on the FaceDatabase
\* C31: remove_face_at_index with an index below 0 or not below the size fails
\* with IndexOutOfRange and leaves both lists as they were; with a valid index
\* it takes out the name and the file reference at that position, keeps the
\* others in their order and leaves the two lists equally long.
C31_RemoveAt ==
    [][Answers("remove") =>
          LET index == lastOp'.ref[1]
              names == face_database.known_face_names
              urls == face_database.known_face_file_urls
              names2 == face_database'.known_face_names
              urls2 == face_database'.known_face_file_urls
          IN  IF index < 0 \/ index >= Len(names)
              THEN /\ ~lastOp'.ok
                   /\ lastOp'.err = "IndexOutOfRange"
                   /\ UNCHANGED face_database
              ELSE /\ lastOp'.ok
                   /\ Len(names2) = Len(names) - 1
                   /\ Len(urls2) = Len(names2)
                   /\ \A i \in 1..Len(names2) :
                        /\ names2[i] = names[IF i <= index THEN i ELSE i + 1]
                        /\ urls2[i] = urls[IF i <= index THEN i ELSE i + 1]]_vars

\* C31 witness: the middle one of three records has been removed, and the two
\* that are left differ
C31_RemovedMiddle ==
    /\ lastOp.op = "remove"
    /\ lastOp.ok
    /\ lastOp.ref = <<1>>
    /\ Len(face_database.known_face_file_urls) = 2
    /\ face_database.known_face_file_urls[1] # face_database.known_face_file_urls[2]

\* ------------------------------------------------- claims on the Index lists
\* C32: whenever no request is being handled, the three lists of the Index are
\* equally long and each position holds the file name of a stored file
\* together with the embedding of that file's first face.
C32_ParallelLists ==
    /\ Len(known_face_names) = Len(known_face_encodings)
    /\ Len(known_face_filenames) = Len(known_face_encodings)
    /\ \A i \in 1..Len(known_face_encodings) :
         \E f \in DOMAIN files :
            /\ f[Len(f)] = known_face_filenames[i]
            /\ Readable(files[f])
            /\ Len(face_encodings(files[f])) > 0
            /\ face_encodings(files[f])[1] = known_face_encodings[i]

\* C33: the path identify builds for a record, known/<lowercase(record
\* name)>/<record file name>, names a stored file for every record of the
\* Index, and no identify fails on loading the image of the record it matched.
C33_MatchedPathExists ==
    /\ \A i \in 1..NumRecords : RecordPath(i) \in DOMAIN files
    /\ ~(lastOp.op = "identify" /\ lastOp.err = "FileNotFound")

\* the (name, file name) pairs of a list of records
NameFilePairs(names, filenames) == {<<names[i], filenames[i]>> : i \in 1..Len(names)}

\* C34: after a successful save the Index has as many records, with the same
\* (name, file name) pairs, as a rebuild over the folders and files of that
\* moment would load.
C34_AppendIsRebuild ==
    [][(Answers("save") /\ lastOp'.ok) =>
          \E listing \in Listings(files', dirs') :
             LET recs == load_known_faces(files', listing)
             IN  /\ Len(known_face_names') = Len(recs)
                 /\ NameFilePairs(known_face_names', known_face_filenames')
                        = NameFilePairs(RecNames(recs), Filenames(recs))]_vars

\* ------------------------------------------------ claims on what a request touches
\* C35: a successful label or delete of f leaves every other file where it is
\* with its content, label keeps the number of files and delete lowers it by
\* one, and the records made from the other files are in the Index afterwards
\* with their name and file name.
C35_OnlyTheTarget ==
    [][((Answers("label") \/ Answers("delete")) /\ lastOp'.ok) =>
          LET f == FileOf(lastOp'.ref)
          IN  /\ \A g \in DOMAIN files \ {f} :
                   g \in DOMAIN files' /\ files'[g] = files[g]
              /\ Cardinality(DOMAIN files') =
                     Cardinality(DOMAIN files) - (IF lastOp'.op = "delete" THEN 1 ELSE 0)
              /\ \A i \in 1..NumRecords :
                   known_face_origins[i] # f =>
                       <<known_face_names[i], known_face_filenames[i]>>
                           \in NameFilePairs(known_face_names', known_face_filenames')]_vars

\* C36: a save, label or delete that answers with a failure leaves the files
\* and the three lists of the Index as they were before the request.
C36_AllOrNothing ==
    [][((Answers("save") \/ Answers("label") \/ Answers("delete")) /\ ~lastOp'.ok) =>
          UNCHANGED <<files, known_face_encodings, known_face_names,
                      known_face_filenames>>]_vars

\* the places of the files of the Store: known/<dir>/<file> and unknown/<file>
InStore(f) ==
    \/ Len(f) = Len(KnownRoot) + 2 /\ SubSeq(f, 1, Len(KnownRoot)) = KnownRoot
    \/ Len(f) = Len(UnknownRoot) + 1 /\ SubSeq(f, 1, Len(UnknownRoot)) = UnknownRoot
\* the files a step has created, removed or rewritten
FilesTouched ==
    {f \in DOMAIN files \cup DOMAIN files' :
        \/ f \notin DOMAIN files
        \/ f \notin DOMAIN files'
        \/ files[f] # files'[f]}

\* C37: whatever file reference and name a save, label or delete is given, the
\* files it creates, moves or removes are all in known/<dir>/ or in unknown/
\* under the store root.
C37_Containment ==
    [][(Answers("save") \/ Answers("label") \/ Answers("delete")) =>
          \A f \in FilesTouched : InStore(f)]_vars

\* ------------------------------------------------ claims on overlapping requests
\* C38: when every request that was issued has returned, each image file with
\* a face in a known/<dir>/ folder is the file of exactly one record of the
\* Index, and every record is the record of such a file.
C38_OneRecordPerFile ==
    task = Idle =>
        /\ \A f \in FaceFiles(files) :
             Cardinality({i \in 1..NumRecords : RecordPath(i) = f}) = 1
        /\ \A i \in 1..NumRecords : RecordPath(i) \in FaceFiles(files)
====
